---- MODULE Spec2Model ----
(***************************************************************************)
(* UDP to MQTT gateway (src/src/main.cpp): command line and configuration  *)
(* file parsing, UDP socket and MQTT client set-up, the forwarding loop    *)
(* and the signal handler.                                                 *)
(*                                                                         *)
(* Strings are sequences of tokens.  " " and "\t" are the whitespace       *)
(* characters, "#" starts a comment, "-", "+", "." and the decimal digits  *)
(* are single characters; any other token stands for a run of characters   *)
(* that holds no whitespace, no '#', no sign and no digit.                 *)
(*                                                                         *)
(* A datagram is [data, size]: its bytes are the first `size` bytes of the *)
(* byte string named `data`.  The receive buffer holds such a prefix.      *)
(***************************************************************************)
EXTENDS Integers, Sequences, FiniteSets, TLC

\* ------------------------------------------------------------------ bounds
MaxArgs  == 2     \* command line arguments after argv[0]
MaxLines == 4     \* lines read from the configuration file
MaxIter  == 2     \* iterations of the main loop

\* ------------------------------------------------------- program constants
UDP_BUFFER_SIZE    == 2048
MQTT_QOS           == 0
MQTT_KEEP_ALIVE    == 20
MQTT_RETRY         == 1000
MQTT_CONN_TIMEOUT  == 1000
EXIT_SUCCESS       == 0
EXIT_FAILURE       == 1
SIGINT             == 2
SIGTERM            == 15
SIGABRT_STATUS     == 134
MQTTCLIENT_SUCCESS == 0
INT_MAX            == 2147483647
INT_MIN            == (-2147483647) - 1

VARIABLES
  pc,          \* position of the process in main()
  argc,        \* AppOptions constructor: arguments taken from cliArgs so far
  lineNum,     \* AppOptions::parseConfFile: lineNum
  verbosity,   \* AppOptions::verbosity
  options,     \* AppOptions: the configuration file options
  parseRet,    \* outcome of options.parseConfFile()
  badLine,     \* history: a line with a syntax, enum or integer error was read
  sockfd,      \* state of the UDP socket
  mqttClient,  \* state of the MQTT client handle
  msgBuffer,   \* name of the byte string whose prefix is in msgBuffer
  msgLen,      \* return value of the last recvfrom
  pubRC,       \* return value of MQTTClient_publishMessage (ignored by main)
  mqttRC,      \* main: mqttRC
  rxLog,       \* history: what each recvfrom call returned
  pubLog,      \* history: calls of MQTTClient_publishMessage
  iterLog,     \* history: one record per finished loop iteration
  exitCode,    \* exit status of the process, set when pc becomes "exited"
  exitCause    \* history: why the process exited

vars == <<pc, argc, lineNum, verbosity, options, parseRet, badLine, sockfd,
          mqttClient, msgBuffer, msgLen, pubRC, mqttRC, rxLog, pubLog,
          iterLog, exitCode, exitCause>>

\* ------------------------------------------------------- string functions
Whitespace == {" ", "\t"}
Digits     == {"0", "1", "2", "3", "4", "5", "6", "7", "8", "9"}

DigitVal(c) ==
  CASE c = "0" -> 0 [] c = "1" -> 1 [] c = "2" -> 2 [] c = "3" -> 3
    [] c = "4" -> 4 [] c = "5" -> 5 [] c = "6" -> 6 [] c = "7" -> 7
    [] c = "8" -> 8 [] c = "9" -> 9

\* std::string::find_first_of / find(c): first index holding a member of cs
\* at or after i, 0 (npos) when there is none
RECURSIVE FindFirstOf(_, _, _)
FindFirstOf(str, cs, i) ==
  IF i > Len(str) THEN 0
  ELSE IF str[i] \in cs THEN i
  ELSE FindFirstOf(str, cs, i + 1)

RECURSIVE FindFirstNotOf(_, _, _)
FindFirstNotOf(str, cs, i) ==
  IF i > Len(str) THEN 0
  ELSE IF str[i] \notin cs THEN i
  ELSE FindFirstNotOf(str, cs, i + 1)

RECURSIVE FindLastNotOf(_, _, _)
FindLastNotOf(str, cs, i) ==
  IF i < 1 THEN 0
  ELSE IF str[i] \notin cs THEN i
  ELSE FindLastNotOf(str, cs, i - 1)

trim(str) ==
  LET strBegin == FindFirstNotOf(str, Whitespace, 1)
      strEnd   == FindLastNotOf(str, Whitespace, Len(str))
  IN  IF strBegin = 0 THEN <<>> ELSE SubSeq(str, strBegin, strEnd)

trimComment(str) ==
  LET strEnd == FindFirstOf(str, {"#"}, 1)
  IN  IF strEnd = 0 THEN str ELSE SubSeq(str, 1, strEnd - 1)

\* std::stoi: skip whitespace, an optional sign, then the longest run of
\* digits; std::invalid_argument without a digit, std::out_of_range when the
\* value does not fit an int.  The value is accumulated on the side of its
\* sign so that INT_MIN is representable.
RECURSIVE StoiDigits(_, _, _, _)
StoiDigits(str, i, acc, neg) ==
  IF i > Len(str) \/ str[i] \notin Digits THEN [exc |-> "none", val |-> acc]
  ELSE LET d == DigitVal(str[i])
       IN  IF neg
           THEN IF acc < (INT_MIN + d) \div 10 + (IF (INT_MIN + d) % 10 = 0 THEN 0 ELSE 1)
                THEN [exc |-> "out_of_range", val |-> 0]
                ELSE StoiDigits(str, i + 1, acc * 10 - d, neg)
           ELSE IF acc > (INT_MAX - d) \div 10
                THEN [exc |-> "out_of_range", val |-> 0]
                ELSE StoiDigits(str, i + 1, acc * 10 + d, neg)

stoi(str) ==
  LET b    == FindFirstNotOf(str, Whitespace, 1)
      sgn  == b # 0 /\ str[b] \in {"-", "+"}
      neg  == b # 0 /\ str[b] = "-"
      d    == IF sgn THEN b + 1 ELSE b
  IN  IF b = 0 \/ d > Len(str) \/ str[d] \notin Digits
      THEN [exc |-> "invalid_argument", val |-> 0]
      ELSE StoiDigits(str, d, 0, neg)

\* ------------------------------------------------------------ AppOptions
\* AppOptions after construction: the member initialisers.
DefaultOptions ==
  [ inputUdpPort                |-> 0,
    mqttUrl                     |-> <<>>,
    mqttTopic                   |-> <<>>,
    mqttClientID                |-> <<>>,
    mqttUsername                |-> <<>>,
    mqttPassword                |-> <<>>,
    mqttVersion                 |-> "MQTTVERSION_DEFAULT",
    mqttQosLevel                |-> MQTT_QOS,
    mqttKeepAliveInterval       |-> MQTT_KEEP_ALIVE,
    mqttRetryInterval           |-> MQTT_RETRY,
    mqttConnectionTimeout       |-> MQTT_CONN_TIMEOUT,
    mqttSslEnableServerCertAuth |-> 1,
    mqttSslVersion              |-> "MQTT_SSL_VERSION_TLS_1_2",
    mqttSslVerify               |-> 0,
    mqttSslTrustStore           |-> <<>>,
    mqttSslKeyStore             |-> <<>>,
    mqttSslPrivateKey           |-> <<>>,
    mqttSslPrivateKeyPasswd     |-> <<>> ]

Ok(o)     == [exc |-> "none", opts |-> o]
Throw(e)  == [exc |-> e, opts |-> DefaultOptions]

\* an integer option: std::stoi(val), whose exception leaves parseConfFile
SetInt(o, field, val) ==
  LET r == stoi(val)
  IN  IF r.exc = "none" THEN Ok([o EXCEPT ![field] = r.val]) ELSE Throw(r.exc)

\* the if / else if chain over the key of one configuration line
SetOption(o, key, val) ==
  CASE key = <<"InputUdpPort">>  -> SetInt(o, "inputUdpPort", val)
    [] key = <<"MqttUrl">>       -> Ok([o EXCEPT !.mqttUrl = val])
    [] key = <<"MqttTopic">>     -> Ok([o EXCEPT !.mqttTopic = val])
    [] key = <<"MqttClientID">>  -> Ok([o EXCEPT !.mqttClientID = val])
    [] key = <<"MqttUsername">>  -> Ok([o EXCEPT !.mqttUsername = val])
    [] key = <<"MqttPassword">>  -> Ok([o EXCEPT !.mqttPassword = val])
    [] key = <<"MqttVersion">>   ->
         CASE val = <<"default">>               -> Ok([o EXCEPT !.mqttVersion = "MQTTVERSION_DEFAULT"])
           [] val = <<"3", ".", "1">>           -> Ok([o EXCEPT !.mqttVersion = "MQTTVERSION_3_1"])
           [] val = <<"3", ".", "1", ".", "1">> -> Ok([o EXCEPT !.mqttVersion = "MQTTVERSION_3_1_1"])
           [] val = <<"5">>                     -> Ok([o EXCEPT !.mqttVersion = "MQTTVERSION_5"])
           [] OTHER                             -> Throw("runtime_error")
    [] key = <<"MqttQosLevel">>          -> SetInt(o, "mqttQosLevel", val)
    [] key = <<"MqttKeepAliveInterval">> -> SetInt(o, "mqttKeepAliveInterval", val)
    [] key = <<"MqttRetryInterval">>     -> SetInt(o, "mqttRetryInterval", val)
    [] key = <<"MqttConnectionTimeout">> -> SetInt(o, "mqttConnectionTimeout", val)
    [] key = <<"MqttSslEnableServerCertAuth">> -> SetInt(o, "mqttSslEnableServerCertAuth", val)
    [] key = <<"MqttSslVersion">> ->
         CASE val = <<"default">>     -> Ok([o EXCEPT !.mqttSslVersion = "MQTT_SSL_VERSION_DEFAULT"])
           [] val = <<"1", ".", "0">> -> Ok([o EXCEPT !.mqttSslVersion = "MQTT_SSL_VERSION_TLS_1_0"])
           [] val = <<"1", ".", "1">> -> Ok([o EXCEPT !.mqttSslVersion = "MQTT_SSL_VERSION_TLS_1_0"])
           [] val = <<"1", ".", "2">> -> Ok([o EXCEPT !.mqttSslVersion = "MQTT_SSL_VERSION_TLS_1_0"])
           [] OTHER                   -> Throw("runtime_error")
    [] key = <<"MqttSslVerify">>           -> SetInt(o, "mqttSslVerify", val)
    [] key = <<"MqttSslTrustStore">>       -> Ok([o EXCEPT !.mqttSslTrustStore = val])
    [] key = <<"MqttSslKeyStore">>         -> Ok([o EXCEPT !.mqttSslKeyStore = val])
    [] key = <<"MqttSslPrivateKey">>       -> Ok([o EXCEPT !.mqttSslPrivateKey = val])
    [] key = <<"MqttSslPrivateKeyPasswd">> -> Ok([o EXCEPT !.mqttSslPrivateKeyPasswd = val])
    [] OTHER -> Ok(o)

\* the body of the getline loop of parseConfFile for one line of the file
ParseLine(o, raw) ==
  LET confLine == trim(trimComment(raw))
      space    == FindFirstOf(confLine, {" "}, 1)
  IN  IF confLine = <<>> THEN Ok(o)
      ELSE IF space = 0 THEN Throw("runtime_error")
      ELSE SetOption(o, SubSeq(confLine, 1, space - 1),
                        SubSeq(confLine, space + 1, Len(confLine)))

\* "check configuration": the return value of parseConfFile
CheckConfigurationNoCredentials(o) ==
  /\ o.mqttUrl # <<>>
  /\ o.mqttTopic # <<>>
  /\ o.mqttClientID # <<>>

CheckConfiguration(o) ==
  /\ o.mqttUrl # <<>>
  /\ o.mqttTopic # <<>>
  /\ o.mqttClientID # <<>>
  /\ ~(o.mqttUsername # <<>> /\ o.mqttPassword = <<>>)

\* ------------------------------------------------------------------ inputs
CliArgs ==
  { <<"-h">>, <<"-h", "elp">>, <<"-v">>, <<"-c=", "gw.conf">>, <<"-c">>, <<"-x">> }

ConfLines ==
  { <<"MqttUrl", " ", "tcp://broker">>,
    <<"MqttTopic", " ", "sensors/", "1">>,
    <<"MqttClientID", " ", "gw">>,
    <<"MqttUsername", " ", "user">>,
    <<"MqttPassword", " ", "secret">>,
    <<"InputUdpPort", " ", "9", "9", "9", "9">>,
    <<"InputUdpPort", " ", "9", "9", "9", "9", "9", "9", "9", "9", "9", "9", "9">>,
    <<"MqttVersion", " ", "3", ".", "1", ".", "1">>,
    <<"MqttVersion", " ", "4">>,
    <<"MqttQosLevel", " ", "1">>,
    <<"MqttQosLevel", " ", "7">>,
    <<"MqttQosLevel", " ", "-", "1">>,
    <<"MqttQosLevel", " ", "two">>,
    <<"MqttKeepAliveInterval", " ", "0">>,
    <<"MqttRetryInterval", " ", "-", "5">>,
    <<"MqttConnectionTimeout", " ", "0", "ms">>,
    <<"MqttSslVersion", " ", "1", ".", "2">>,
    <<"MqttSslVersion", " ", "1", ".", "3">>,
    <<"MqttSslVerify", " ", "1">>,
    <<"MqttSslTrustStore", " ", "/etc/ca.pem">>,
    <<"\t", "MqttTopic", " ", "d", "2", "x", " ", "#", " ", "topic">>,
    <<"MqttUrl", " ", "#", "tcp://broker">>,
    <<"#", " ", "MqttQosLevel", " ", "2">>,
    <<"Unknown", " ", "x">> }

Datagrams ==
  { [data |-> "A", size |-> 3], [data |-> "B", size |-> 2049] }

ConnectRCs == {MQTTCLIENT_SUCCESS, -1, 5}
PublishRCs == {MQTTCLIENT_SUCCESS, -5}
WaitRCs    == {MQTTCLIENT_SUCCESS, -1}
Signals    == {SIGINT, SIGTERM}

\* ------------------------------------- errors of a configuration file line
IntKeys ==
  { "InputUdpPort", "MqttQosLevel", "MqttKeepAliveInterval", "MqttRetryInterval",
    "MqttConnectionTimeout", "MqttSslEnableServerCertAuth", "MqttSslVerify" }

MqttVersionNames == { <<"default">>, <<"3", ".", "1">>, <<"3", ".", "1", ".", "1">>, <<"5">> }
SslVersionNames  == { <<"default">>, <<"1", ".", "0">>, <<"1", ".", "1">>, <<"1", ".", "2">> }

\* the line, without its comment and surrounding whitespace, is not empty
\* and is not "Key Value"; or the value of an enumerated key is not one of
\* its names; or the value of an integer key does not start with an integer
\* that fits an int
LineHasError(raw) ==
  LET line  == trim(trimComment(raw))
      space == FindFirstOf(line, {" "}, 1)
      key   == SubSeq(line, 1, space - 1)
      val   == SubSeq(line, space + 1, Len(line))
  IN  /\ line # <<>>
      /\ \/ space = 0
         \/ key = <<"MqttVersion">> /\ val \notin MqttVersionNames
         \/ key = <<"MqttSslVersion">> /\ val \notin SslVersionNames
         \/ Len(key) = 1 /\ key[1] \in IntKeys /\ stoi(val).exc # "none"

\* ---------------------------------------------------------- process state
Init ==
  /\ pc = "args"
  /\ argc = 0
  /\ lineNum = 0
  /\ verbosity = 0
  /\ options = DefaultOptions
  /\ parseRet = "pending"
  /\ badLine = FALSE
  /\ sockfd = "none"
  /\ mqttClient = "none"
  /\ msgBuffer = "uninitialized"
  /\ msgLen = 0
  /\ pubRC = MQTTCLIENT_SUCCESS
  /\ mqttRC = MQTTCLIENT_SUCCESS
  /\ rxLog = <<>>
  /\ pubLog = <<>>
  /\ iterLog = <<>>
  /\ exitCode = 0
  /\ exitCause = "none"

\* exit(code): the process ends; nothing closes the socket or the client
Exit(code, cause) ==
  /\ pc' = "exited"
  /\ exitCode' = code
  /\ exitCause' = cause

\* the statements of main() between parseConfFile and the main loop, in order
SetupOrderConnectFirst == <<"create", "connect", "socket", "bind", "recv">>

SetupOrder == <<"socket", "bind", "create", "connect", "recv">>

StepAfter(p) ==
  LET i == CHOOSE k \in 1..Len(SetupOrder) : SetupOrder[k] = p
  IN  SetupOrder[i + 1]

\* ------------------------------------------------- AppOptions constructor
\* one iteration of while (!cliArgs.empty())
ParseArg ==
  /\ pc = "args"
  /\ argc < MaxArgs
  /\ \E arg \in CliArgs :
       /\ argc' = argc + 1
       /\ IF arg[1] = "-h"
          THEN Exit(EXIT_SUCCESS, "help") /\ UNCHANGED verbosity
          ELSE IF arg[1] = "-v"
          THEN verbosity' = 1 /\ UNCHANGED <<pc, exitCode, exitCause>>
          ELSE IF arg[1] = "-c="
          THEN UNCHANGED <<verbosity, pc, exitCode, exitCause>>
          ELSE Exit(EXIT_FAILURE, "usage") /\ UNCHANGED verbosity
  /\ UNCHANGED <<lineNum, options, parseRet, badLine, sockfd, mqttClient,
                 msgBuffer, msgLen, pubRC, mqttRC, rxLog, pubLog, iterLog>>

\* cliArgs is empty: the constructor returns (its local cliArgs is gone), main
\* calls parseConfFile
EndArgs ==
  /\ pc = "args"
  /\ pc' = "open"
  /\ argc' = 0
  /\ UNCHANGED <<lineNum, verbosity, options, parseRet, badLine, sockfd,
                 mqttClient, msgBuffer, msgLen, pubRC, mqttRC, rxLog,
                 pubLog, iterLog, exitCode, exitCause>>

\* ------------------------------------------------------------ parseConfFile
\* main's handling of what parseConfFile throws: the two catch clauses exit
\* with EXIT_FAILURE, std::out_of_range is caught by neither and ends the
\* process through std::terminate (abort)
ExitOnException(exc) ==
  /\ parseRet' = exc
  /\ IF exc \in {"invalid_argument", "runtime_error"}
     THEN Exit(EXIT_FAILURE, "config")
     ELSE Exit(SIGABRT_STATUS, "terminate")

OpenConfFile ==
  /\ pc = "open"
  /\ \E isOpen \in BOOLEAN :
       IF isOpen
       THEN pc' = "parse" /\ UNCHANGED <<parseRet, exitCode, exitCause>>
       ELSE ExitOnException("runtime_error")
  /\ UNCHANGED <<argc, lineNum, verbosity, options, badLine, sockfd, mqttClient,
                 msgBuffer, msgLen, pubRC, mqttRC, rxLog, pubLog, iterLog>>

\* one iteration of while (std::getline(confFile, confLine))
ParseConfLine ==
  /\ pc = "parse"
  /\ lineNum < MaxLines
  /\ \E raw \in ConfLines :
       LET r == ParseLine(options, raw)
       IN  /\ lineNum' = lineNum + 1
           /\ badLine' = (badLine \/ LineHasError(raw))
           /\ IF r.exc = "none"
              THEN options' = r.opts /\ UNCHANGED <<pc, parseRet, exitCode, exitCause>>
              ELSE ExitOnException(r.exc) /\ UNCHANGED options
  /\ UNCHANGED <<argc, verbosity, sockfd, mqttClient, msgBuffer, msgLen, pubRC, mqttRC, rxLog, pubLog, iterLog>>

\* getline reaches the end of the file: the configuration is checked, the
\* function returns (its local lineNum is gone) and main exits unless it
\* returned true
EndOfConfFile ==
  /\ pc = "parse"
  /\ IF CheckConfiguration(options)
     THEN parseRet' = "true" /\ pc' = SetupOrder[1] /\ UNCHANGED <<exitCode, exitCause>>
     ELSE parseRet' = "false" /\ Exit(EXIT_FAILURE, "config")
  /\ lineNum' = 0
  /\ UNCHANGED <<argc, verbosity, options, badLine, sockfd, mqttClient,
                 msgBuffer, msgLen, pubRC, mqttRC, rxLog, pubLog, iterLog>>

\* ------------------------------------------------------------------- SETUP
\* sockfd = socket(AF_INET, SOCK_DGRAM, 0)
OpenSocket ==
  /\ pc = "socket"
  /\ \E ok \in BOOLEAN :
       IF ok
       THEN sockfd' = "open" /\ pc' = StepAfter("socket") /\ UNCHANGED <<exitCode, exitCause>>
       ELSE Exit(EXIT_FAILURE, "socket") /\ UNCHANGED sockfd
  /\ UNCHANGED <<argc, lineNum, verbosity, options, parseRet, badLine, mqttClient,
                 msgBuffer, msgLen, pubRC, mqttRC, rxLog, pubLog, iterLog>>

\* bind(sockfd, INADDR_ANY : inputUdpPort)
BindSocket ==
  /\ pc = "bind"
  /\ \E ok \in BOOLEAN :
       IF ok
       THEN sockfd' = "bound" /\ pc' = StepAfter("bind") /\ UNCHANGED <<exitCode, exitCause>>
       ELSE Exit(EXIT_FAILURE, "bind") /\ UNCHANGED sockfd
  /\ UNCHANGED <<argc, lineNum, verbosity, options, parseRet, badLine, mqttClient,
                 msgBuffer, msgLen, pubRC, mqttRC, rxLog, pubLog, iterLog>>

\* MQTTClient_create and the connect options; the return value of
\* MQTTClient_create is not looked at
CreateClient ==
  /\ pc = "create"
  /\ mqttClient' = "created"
  /\ pc' = StepAfter("create")
  /\ UNCHANGED <<argc, lineNum, verbosity, options, parseRet, badLine, sockfd,
                 msgBuffer, msgLen, pubRC, mqttRC, rxLog, pubLog, iterLog,
                 exitCode, exitCause>>

\* mqttRC = MQTTClient_connect(...)
Connect ==
  /\ pc = "connect"
  /\ \E rc \in ConnectRCs :
       /\ mqttRC' = rc
       /\ IF rc = MQTTCLIENT_SUCCESS
          THEN mqttClient' = "connected" /\ pc' = StepAfter("connect")
               /\ UNCHANGED <<exitCode, exitCause>>
          ELSE Exit(EXIT_FAILURE, "connect") /\ UNCHANGED mqttClient
  /\ UNCHANGED <<argc, lineNum, verbosity, options, parseRet, badLine, sockfd,
                 msgBuffer, msgLen, pubRC, rxLog, pubLog, iterLog>>

\* --------------------------------------------------------------- MAIN LOOP
Min(a, b) == IF a < b THEN a ELSE b

\* msgLen = recvfrom(sockfd, msgBuffer, UDP_BUFFER_SIZE, ...): a datagram
\* arrives and its first UDP_BUFFER_SIZE bytes are copied ...
Receive ==
  /\ pc = "recv"
  /\ Len(iterLog) < MaxIter
  /\ \E d \in Datagrams :
       /\ msgBuffer' = d.data
       /\ msgLen' = Min(d.size, UDP_BUFFER_SIZE)
       /\ rxLog' = Append(rxLog, [data |-> d.data, len |-> Min(d.size, UDP_BUFFER_SIZE)])
  /\ pc' = "publish"
  /\ UNCHANGED <<argc, lineNum, verbosity, options, parseRet, badLine, sockfd,
                 mqttClient, pubRC, mqttRC, pubLog, iterLog, exitCode, exitCause>>

\* ... or recvfrom fails: it returns -1 and leaves msgBuffer as it was
ReceiveError ==
  /\ pc = "recv"
  /\ Len(iterLog) < MaxIter
  /\ msgLen' = -1
  /\ rxLog' = Append(rxLog, [data |-> "none", len |-> -1])
  /\ pc' = "publish"
  /\ UNCHANGED <<argc, lineNum, verbosity, options, parseRet, badLine, sockfd,
                 mqttClient, msgBuffer, pubRC, mqttRC, pubLog, iterLog,
                 exitCode, exitCause>>

\* the MQTTClient_message built from the buffer and the options
Pubmsg ==
  [ topic      |-> options.mqttTopic,
    payload    |-> msgBuffer,
    payloadlen |-> msgLen,
    qos        |-> options.mqttQosLevel,
    retained   |-> 0,
    rx         |-> Len(rxLog) ]

\* MQTTClient_publishMessage(mqttClient, topic, &pubmsg, &token); its return
\* value is dropped
PublishMessage ==
  /\ pc = "publish"
  /\ pubLog' = Append(pubLog, Pubmsg)
  /\ \E rc \in PublishRCs : pubRC' = rc
  /\ pc' = "wait"
  /\ UNCHANGED <<argc, lineNum, verbosity, options, parseRet, badLine, sockfd,
                 mqttClient, msgBuffer, msgLen, mqttRC, rxLog, iterLog,
                 exitCode, exitCause>>

\* where the loop goes once MQTTClient_waitForCompletion returned rc
AfterWaitRetry(rc) == IF rc # MQTTCLIENT_SUCCESS THEN "publish" ELSE "recv"

AfterWait(rc) == "recv"

\* mqttRC = MQTTClient_waitForCompletion(...), the error message when it is
\* not MQTTCLIENT_SUCCESS, the debug message at verbosity 2
WaitForCompletion ==
  /\ pc = "wait"
  /\ \E rc \in WaitRCs :
       /\ mqttRC' = rc
       /\ iterLog' = Append(iterLog,
            [ pubRC    |-> pubRC,
              waitRC   |-> rc,
              error    |-> IF rc # MQTTCLIENT_SUCCESS THEN <<rc>> ELSE <<>>,
              success  |-> verbosity >= 2 ])
       /\ pc' = AfterWait(rc)
  /\ UNCHANGED <<argc, lineNum, verbosity, options, parseRet, badLine, sockfd,
                 mqttClient, msgBuffer, msgLen, pubRC, rxLog, pubLog,
                 exitCode, exitCause>>

\* -------------------------------------------------------- signalHandlerINT
SignalExitCodeSuccess(signum) == EXIT_SUCCESS

SignalExitCode(signum) == signum

\* SIGINT or SIGTERM is delivered: the handler prints and calls exit(signum)
signalHandlerINT ==
  /\ pc # "exited"
  /\ \E signum \in Signals : Exit(SignalExitCode(signum), "signal")
  /\ UNCHANGED <<argc, lineNum, verbosity, options, parseRet, badLine, sockfd,
                 mqttClient, msgBuffer, msgLen, pubRC, mqttRC, rxLog,
                 pubLog, iterLog>>

Next ==
  \/ ParseArg
  \/ EndArgs
  \/ OpenConfFile
  \/ ParseConfLine
  \/ EndOfConfFile
  \/ OpenSocket
  \/ BindSocket
  \/ CreateClient
  \/ Connect
  \/ Receive
  \/ ReceiveError
  \/ PublishMessage
  \/ WaitForCompletion
  \/ signalHandlerINT

Spec == Init /\ [][Next]_vars

\* ================================================================== claims
LoopPcs == {"recv", "publish", "wait"}

\* what recvfrom returned for the iteration of the i-th publish call
RxOf(i) == rxLog[pubLog[i].rx]

\* C1: every datagram returned by recvfrom is published exactly once, on the
\* configured topic, at the configured QoS, not retained, with the length and
\* the bytes recvfrom returned; and every publish call belongs to a datagram
\* that recvfrom returned.
C1_OnePublishPerDatagram ==
  /\ \A i \in 1..Len(pubLog) :
       /\ RxOf(i).len >= 0
       /\ pubLog[i].topic = options.mqttTopic
       /\ pubLog[i].qos = options.mqttQosLevel
       /\ pubLog[i].retained = 0
       /\ pubLog[i].payloadlen = RxOf(i).len
       /\ pubLog[i].payload = RxOf(i).data
  /\ \A k \in 1..Len(rxLog) :
       rxLog[k].len >= 0 =>
         Cardinality({i \in 1..Len(pubLog) : pubLog[i].rx = k})
           = (IF k = Len(rxLog) /\ pc = "publish" THEN 0 ELSE 1)

\* C2: a failed publish (or a timed out wait) does not end the loop: once an
\* iteration has finished the process only exits on a signal, the loop is
\* back at recvfrom before it publishes again, and no recvfrom result is
\* handed to MQTTClient_publishMessage twice.
C2_PublishFailureIsNotFatal ==
  /\ (iterLog # <<>> /\ pc = "exited") => exitCause = "signal"
  /\ pc = "recv" => Len(rxLog) = Len(iterLog)
  /\ pc \in {"publish", "wait"} => Len(rxLog) = Len(iterLog) + 1
  /\ \A i, j \in 1..Len(pubLog) : i < j => pubLog[i].rx # pubLog[j].rx

\* a failed iteration is followed by an iteration whose datagram was
\* received, published and acknowledged
C2_Witness ==
  \E i, j \in 1..Len(iterLog) :
    /\ i < j
    /\ iterLog[i].waitRC # MQTTCLIENT_SUCCESS
    /\ rxLog[i].len >= 0
    /\ rxLog[j].len >= 0
    /\ pubLog[j].rx = j
    /\ iterLog[j].pubRC = MQTTCLIENT_SUCCESS
    /\ iterLog[j].waitRC = MQTTCLIENT_SUCCESS

\* C3: when the process has exited on SIGINT or SIGTERM, the UDP socket has
\* been closed and the MQTT session has been disconnected.
C3_SignalReleasesResources ==
  (pc = "exited" /\ exitCause = "signal") =>
    /\ sockfd \in {"none", "closed"}
    /\ mqttClient \in {"none", "disconnected"}

\* C4 as claimed: the exit code is 0 after -h and after a signal, and not 0
\* after a configuration, socket, bind or connect failure.
C4_ExitCodesAsClaimed ==
  pc = "exited" =>
    /\ exitCause \in {"help", "signal"} => exitCode = 0
    /\ exitCause \in {"config", "terminate", "socket", "bind", "connect"} => exitCode # 0

\* C4 amended: the exit code is 0 only after -h; after a signal it is the
\* signal number (2 or 15); after a configuration, socket, bind or connect
\* failure (and an unrecognized argument) it is not 0.
C4_ExitCodes ==
  pc = "exited" =>
    /\ exitCause = "help" => exitCode = EXIT_SUCCESS
    /\ exitCause = "signal" => exitCode \in Signals /\ exitCode # 0
    /\ exitCause \in {"usage", "config", "socket", "bind", "connect"} =>
         exitCode = EXIT_FAILURE /\ exitCode # 0
    /\ exitCause = "terminate" => exitCode # 0
    /\ exitCode = 0 => exitCause = "help"

C4_Witness ==
  /\ pc = "exited"
  /\ exitCause = "signal"
  /\ exitCode = SIGTERM
  /\ sockfd = "bound"

ConfigInvalid(o) ==
  \/ o.mqttUrl = <<>>
  \/ o.mqttTopic = <<>>
  \/ o.mqttClientID = <<>>
  \/ (o.mqttUsername # <<>> /\ o.mqttPassword = <<>>)

\* C5: the UDP socket and the MQTT client only exist once parseConfFile has
\* returned true, on a file without an erroneous line and with options that
\* pass the required-field and credentials checks; and when parseConfFile
\* returned false or threw, or an erroneous line was read, the process has
\* exited with a non-zero code and neither was ever created.
C5_ValidationGate ==
  /\ pc \notin {"args", "open", "parse", "exited"} => parseRet = "true"
  /\ (sockfd # "none" \/ mqttClient # "none") => parseRet = "true"
  /\ parseRet = "true" => ~badLine /\ ~ConfigInvalid(options)
  /\ (badLine \/ parseRet \notin {"pending", "true"}) =>
       /\ pc = "exited"
       /\ exitCode # 0
       /\ sockfd = "none"
       /\ mqttClient = "none"
  /\ (pc = "exited" /\ exitCause = "config") =>
       \/ badLine
       \/ parseRet = "runtime_error" /\ lineNum = 0
       \/ parseRet = "false" /\ ConfigInvalid(options)

\* the credentials check stopped a file that sets all required options
C5_Witness ==
  /\ pc = "exited"
  /\ parseRet = "false"
  /\ options.mqttUrl # <<>>
  /\ options.mqttTopic # <<>>
  /\ options.mqttClientID # <<>>
  /\ options.mqttUsername # <<>>
  /\ options.mqttPassword = <<>>
  /\ exitCode = EXIT_FAILURE
  /\ sockfd = "none"
  /\ mqttClient = "none"

\* C6 as claimed: connect, then bind: whenever the UDP socket is bound the
\* MQTT session is connected, and after a failed connect no socket is bound.
C6_ConnectThenBind ==
  /\ sockfd = "bound" => mqttClient = "connected"
  /\ (pc = "exited" /\ exitCause = "connect") => sockfd # "bound"

\* C6 amended: bind, then connect: whenever the MQTT client exists the UDP
\* socket is bound, the main loop only runs with the socket bound and after
\* MQTTClient_connect returned success, and after a failed connect the
\* process has exited with the socket bound.
C6_BindThenConnect ==
  /\ mqttClient # "none" => sockfd = "bound"
  /\ pc \in LoopPcs => sockfd = "bound" /\ mqttClient = "connected"
  /\ (pc = "exited" /\ exitCause = "connect") =>
       sockfd = "bound" /\ mqttClient = "created" /\ rxLog = <<>>

C6_Witness ==
  /\ pc = "exited"
  /\ exitCause = "connect"
  /\ sockfd = "bound"
  /\ mqttClient = "created"

\* C7: the payloads handed to MQTTClient_publishMessage are, in order, the
\* datagrams recvfrom returned, and a publish is only issued once the wait
\* for the previous one has returned.
Payloads == [i \in 1..Len(pubLog) |->
               [data |-> pubLog[i].payload, len |-> pubLog[i].payloadlen]]

IsDatagram(r) == r.len >= 0

C7_InOrderOneAtATime ==
  LET received == SelectSeq(rxLog, IsDatagram)
  IN  /\ Len(Payloads) <= Len(received)
      /\ Payloads = SubSeq(received, 1, Len(Payloads))
      /\ Len(received) - Len(Payloads) <= 1
      /\ Len(pubLog) - Len(iterLog) = (IF pc = "wait" THEN 1 ELSE 0)

\* C8: once parseConfFile has returned true the QoS level is 0, 1 or 2 and
\* the keep-alive interval, retry interval and connection timeout are
\* positive; every publish carries a QoS of 0, 1 or 2.
C8_OptionRanges ==
  /\ parseRet = "true" =>
       /\ options.mqttQosLevel \in 0..2
       /\ options.mqttKeepAliveInterval > 0
       /\ options.mqttRetryInterval > 0
       /\ options.mqttConnectionTimeout > 0
  /\ \A i \in 1..Len(pubLog) : pubLog[i].qos \in 0..2

\* C9: in every finished iteration in which MQTTClient_publishMessage or
\* MQTTClient_waitForCompletion did not return MQTTCLIENT_SUCCESS, the loop
\* printed the publish error and did not print the success message.
C9_FailedPublishIsLogged ==
  \A i \in 1..Len(iterLog) :
    (iterLog[i].pubRC # MQTTCLIENT_SUCCESS \/ iterLog[i].waitRC # MQTTCLIENT_SUCCESS) =>
      /\ iterLog[i].error # <<>>
      /\ ~iterLog[i].success

\* C10: a publish is only issued after recvfrom returned a datagram: the
\* payload length of every publish is in 0..UDP_BUFFER_SIZE.
C10_PublishOnlyAfterReceive ==
  /\ \A i \in 1..Len(pubLog) : pubLog[i].payloadlen \in 0..UDP_BUFFER_SIZE
  /\ pc = "wait" => msgLen >= 0

====
